---- MODULE Spec2Model ----
(***************************************************************************)
(* Model of extract_timeseries.py: extraction of per-region time series    *)
(* from a gridded dataset.  One action per step of extract_time_series.    *)
(***************************************************************************)
EXTENDS Integers, Sequences, FiniteSets, TLC

VARIABLES
    pc,               \* position in extract_time_series
    inputfile,        \* TRUE iff os.path.exists(inputfile)
    varname,          \* requested data variable
    country,          \* country code (upper-cased at the country check)
    adm_level,        \* admin level: a string until int(), then an integer
    dataset,          \* the opened grid: [lat, lon, data_vars]
    r,                \* boundary-service response: [bound, levels]
    selected_adm,     \* the level record chosen from r, or NoAdm
    geoBoundary,      \* sequence of regions read from the boundary file
    index,            \* number of regions whose loop iteration has completed
    this_dataset,     \* the Region Window of the last processed region
    out_ts,           \* the time-series DataFrame: [len, cols]
    stats,            \* the statistics DataFrame: sequence of rows
    files,            \* output files written so far
    error,            \* the exception that ended the run, or "none"
    log,              \* messages logged so far
    requested,        \* TRUE once the boundary-service request was issued
    gridOps           \* number of grid selections computed so far

vars == <<pc, inputfile, varname, country, adm_level, dataset, r, selected_adm,
          geoBoundary, index, this_dataset, out_ts, stats, files, error, log,
          requested, gridOps>>

----------------------------------------------------------------------------
(* Bounds *)
MaxCoord   == 3    \* coordinates of boxes range over 0..MaxCoord
MaxAxis    == 2    \* longest latitude / longitude axis of a grid
MaxRegions == 2    \* most regions in a boundary file
MaxLevels  == 3    \* most admin levels in a service response
NTime      == 2    \* length of the time axis
NStep      == 2    \* length of the step axis

----------------------------------------------------------------------------
(* Sequences helpers *)
Range(s) == {s[i] : i \in 1..Len(s)}

SeqsUpTo(S, n) == UNION {[1..k -> S] : k \in 0..n}

StrictlyIncreasing(s) == \A i \in 1..Len(s) : \A j \in 1..Len(s) : i < j => s[i] < s[j]
StrictlyDecreasing(s) == \A i \in 1..Len(s) : \A j \in 1..Len(s) : i < j => s[i] > s[j]

\* pandas Index.is_monotonic_increasing / is_monotonic_decreasing (not strict)
is_monotonic_increasing(idx) ==
    \A i \in 1..Len(idx) : \A j \in 1..Len(idx) : i < j => idx[i] <= idx[j]
is_monotonic_decreasing(idx) ==
    \A i \in 1..Len(idx) : \A j \in 1..Len(idx) : i < j => idx[i] >= idx[j]

----------------------------------------------------------------------------
(* dataset.sel(longitude = slice(xmin, xmax), latitude = slice(ymax, ymin)) *)

\* numpy searchsorted on an ascending array
searchsorted(idx, label, side) ==
    IF side = "left"
    THEN Cardinality({i \in 1..Len(idx) : idx[i] < label})
    ELSE Cardinality({i \in 1..Len(idx) : idx[i] <= label})

Reverse(s) == [i \in 1..Len(s) |-> s[Len(s) + 1 - i]]

\* pandas Index._searchsorted_monotonic: the increasing test comes first, so
\* an axis of one value is handled as ascending
searchsorted_monotonic(idx, label, side) ==
    IF is_monotonic_increasing(idx)
    THEN searchsorted(idx, label, side)
    ELSE Len(idx) - searchsorted(Reverse(idx), label,
                                 IF side = "left" THEN "right" ELSE "left")

\* pandas Index.slice_indexer(start, stop) on a monotonic unique index: the
\* positions [lo, hi) as a sub-sequence, empty when hi <= lo
slice_indexer(idx, start, stop) ==
    LET lo == searchsorted_monotonic(idx, start, "left")
        hi == searchsorted_monotonic(idx, stop, "right")
    IN  SubSeq(idx, lo + 1, hi)

\* variant of sel that slices the latitude as ymin..ymax (ascending axis assumed)
sel_ascending(ds, xmin, ymin, xmax, ymax) ==
    [ds EXCEPT !.lon = slice_indexer(ds.lon, xmin, xmax),
               !.lat = slice_indexer(ds.lat, ymin, ymax)]

\* lines 111-113: longitude sliced xmin..xmax, latitude sliced ymax..ymin
sel(ds, xmin, ymin, xmax, ymax) ==
    [ds EXCEPT !.lon = slice_indexer(ds.lon, xmin, xmax),
               !.lat = slice_indexer(ds.lat, ymax, ymin)]

\* the grid cells of a dataset, as <<longitude, latitude>> pairs
Cells(ds) == Range(ds.lon) \X Range(ds.lat)

\* variant of size that counts the time and step axes only
size_time_only(ds) == NTime * NStep

\* DataArray.size of a data variable: time x step x latitude x longitude
size(ds) == NTime * NStep * Len(ds.lat) * Len(ds.lon)

----------------------------------------------------------------------------
(* The data variable, its reduction and the stacked series (lines 126-143) *)

NaN == [num |-> 0, den |-> 0]

\* the time and step coordinates of the grid
time(ti) == 100 * ti
step(si) == si

\* the value of the data variable at one cell and one (time, step)
CellValue(ti, si, c) == 100 * c[1] + 10 * c[2] + (ti - 1) * NStep + si

\* a region's polygon: its bounding box, or the lower-left triangle of it
Inside(row, c) ==
    /\ row.xmin <= c[1] /\ c[1] <= row.xmax
    /\ row.ymin <= c[2] /\ c[2] <= row.ymax
    /\ row.geom = "tri" =>
         (c[1] - row.xmin) * (row.ymax - row.ymin)
           + (c[2] - row.ymin) * (row.xmax - row.xmin)
           <= (row.xmax - row.xmin) * (row.ymax - row.ymin)

\* rio.clip(..., drop=False): the window's cells that the polygon keeps; the
\* others are masked (NaN) and the axes keep their lengths
clip(win, row) == {c \in Cells(win) : Inside(row, c)}

RECURSIVE SumCells(_, _, _)
SumCells(S, ti, si) ==
    IF S = {} THEN 0
    ELSE LET c == CHOOSE d \in S : TRUE
         IN  CellValue(ti, si, c) + SumCells(S \ {c}, ti, si)

\* mean over longitude and latitude, skipping masked cells: an exact fraction
mean(S, ti, si) ==
    IF S = {} THEN NaN
    ELSE [num |-> SumCells(S, ti, si), den |-> Cardinality(S)]

\* stack(dimension = ['time', 'step']): time-major order
StackLen == NTime * NStep
TimeOf(k) == ((k - 1) \div NStep) + 1
StepOf(k) == ((k - 1) % NStep) + 1

stacked_values(S) == [k \in 1..StackLen |-> mean(S, TimeOf(k), StepOf(k))]

\* stacked_data['timestep'] = stacked_data.time + stacked_data.step
stacked_timestep == [k \in 1..StackLen |-> [dt |-> time(TimeOf(k)) + step(StepOf(k))]]

----------------------------------------------------------------------------
(* pandas DataFrame: [len |-> length of the index, cols |-> columns in order] *)

EmptyFrame == [len |-> 0, cols |-> <<>>]

ColumnNames(df) == [i \in 1..Len(df.cols) |-> df.cols[i].name]

HasColumn(df, name) == \E i \in 1..Len(df.cols) : df.cols[i].name = name

Column(df, name) ==
    (CHOOSE c \in Range(df.cols) : c.name = name).vals

\* variant of PutColumn that extends an existing column instead of replacing it
PutColumn_extend(cols, name, vals) ==
    IF \E i \in 1..Len(cols) : cols[i].name = name
    THEN [i \in 1..Len(cols) |->
            IF cols[i].name = name
            THEN [name |-> name, vals |-> cols[i].vals \o vals]
            ELSE cols[i]]
    ELSE Append(cols, [name |-> name, vals |-> vals])

\* an existing label is overwritten in place, a new label is appended
PutColumn(cols, name, vals) ==
    IF \E i \in 1..Len(cols) : cols[i].name = name
    THEN [i \in 1..Len(cols) |->
            IF cols[i].name = name THEN [name |-> name, vals |-> vals] ELSE cols[i]]
    ELSE Append(cols, [name |-> name, vals |-> vals])

\* DataFrame.__setitem__(name, array): a frame with an empty index takes the
\* array's length; otherwise a length mismatch raises ValueError
setitem(df, name, vals) ==
    IF df.len = 0 /\ Len(vals) > 0
    THEN [ok |-> TRUE,
          df |-> [len  |-> Len(vals),
                  cols |-> PutColumn(
                      [i \in 1..Len(df.cols) |->
                          [name |-> df.cols[i].name,
                           vals |-> [k \in 1..Len(vals) |-> NaN]]],
                      name, vals)]]
    ELSE IF Len(vals) # df.len
    THEN [ok |-> FALSE, df |-> df]
    ELSE [ok |-> TRUE, df |-> [len |-> df.len, cols |-> PutColumn(df.cols, name, vals)]]

----------------------------------------------------------------------------
(* Inputs *)

all_countries == {"ITA", "FRA"}
Countries == {"ITA", "ita", "ZZZ"}

\* str.upper
upper(c) == CASE c = "ita" -> "ITA" [] c = "fra" -> "FRA" [] c = "zzz" -> "ZZZ" [] OTHER -> c

AdmLevels == {"0", "1", "2", "3", "-1", "x"}

\* int(adm_level): [ok |-> FALSE] stands for ValueError
int(s) ==
    CASE s = "0"  -> [ok |-> TRUE, val |-> 0]
      [] s = "1"  -> [ok |-> TRUE, val |-> 1]
      [] s = "2"  -> [ok |-> TRUE, val |-> 2]
      [] s = "3"  -> [ok |-> TRUE, val |-> 3]
      [] s = "-1" -> [ok |-> TRUE, val |-> -1]
      [] OTHER    -> [ok |-> FALSE, val |-> 0]

VarNames == {"t2m", "xx"}

Axes(vals) == {s \in SeqsUpTo(vals, MaxAxis) :
                  Len(s) > 0 /\ (StrictlyIncreasing(s) \/ StrictlyDecreasing(s))}

\* grids of a run: axes of consecutive coordinates from 1, longitude
\* ascending, latitude in either order
GridAxes ==
    {[i \in 1..n |-> i] :
        n \in 1..(IF MaxAxis < MaxCoord - 1 THEN MaxAxis ELSE MaxCoord - 1)}

Datasets ==
    {[lat |-> la, lon |-> lo, data_vars |-> {"t2m"}] :
        la \in GridAxes \cup {Reverse(a) : a \in GridAxes}, lo \in GridAxes}

Intervals == {p \in (0..MaxCoord) \X (0..MaxCoord) : p[1] < p[2]}

RegionNames == {"A", "timestep"}

Region(nm, g, px, py) ==
    [shapeName |-> nm, geom |-> g,
     xmin |-> px[1], xmax |-> px[2], ymin |-> py[1], ymax |-> py[2]]

\* regions of a run: polygons over square bounding boxes at the low corner,
\* at the high corner, or spanning the whole coordinate range
Regions ==
    {Region(nm, g, p, p) :
        nm \in RegionNames, g \in {"box", "tri"},
        p \in {<<0, 1>>, <<MaxCoord - 1, MaxCoord>>, <<0, MaxCoord>>}}

\* the service's response with k levels: r[i] is admin level i
Response(k) == [bound |-> TRUE, levels |-> [i \in 1..k |-> [boundaryType |-> i - 1]]]
Unbound == [bound |-> FALSE, levels |-> <<>>]
NoAdm == [boundaryType |-> -1]

----------------------------------------------------------------------------
(* The run *)

Init ==
    /\ pc = "open"
    /\ inputfile \in BOOLEAN
    /\ varname \in VarNames
    /\ country \in Countries
    /\ adm_level \in AdmLevels
    /\ dataset \in Datasets
    /\ r = Unbound
    /\ selected_adm = NoAdm
    /\ geoBoundary = <<>>
    /\ index = 0
    /\ this_dataset = [lat |-> <<>>, lon |-> <<>>, data_vars |-> {}]
    /\ out_ts = EmptyFrame
    /\ stats = <<>>
    /\ files = {}
    /\ error = "none"
    /\ log = {}
    /\ requested = FALSE
    /\ gridOps = 0

\* logging.error(msg); raise Exception(msg)
Raise(e) ==
    /\ pc' = "failed"
    /\ error' = e
    /\ log' = log \cup {e}

\* lines 54-58
OpenDataset ==
    /\ pc = "open"
    /\ IF inputfile
       THEN pc' = "check_var" /\ UNCHANGED <<error, log>>
       ELSE Raise("Missing input file")
    /\ UNCHANGED <<inputfile, varname, country, adm_level, dataset, r, selected_adm,
                   geoBoundary, index, this_dataset, out_ts, stats, files,
                   requested, gridOps>>

\* lines 61-63
CheckVariable ==
    /\ pc = "check_var"
    /\ IF varname \in dataset.data_vars
       THEN pc' = "check_country" /\ UNCHANGED <<error, log>>
       ELSE Raise("Variable is not a data variable")
    /\ UNCHANGED <<inputfile, varname, country, adm_level, dataset, r, selected_adm,
                   geoBoundary, index, this_dataset, out_ts, stats, files,
                   requested, gridOps>>

\* variant of CheckCountry that upper-cases the code and never rejects it
CheckCountry_unchecked ==
    /\ pc = "check_country"
    /\ country' = upper(country)
    /\ pc' = "request"
    /\ UNCHANGED <<inputfile, varname, adm_level, dataset, r, selected_adm,
                   geoBoundary, index, this_dataset, out_ts, stats, files,
                   requested, gridOps, error, log>>

\* lines 67-71
CheckCountry ==
    /\ pc = "check_country"
    /\ country' = upper(country)
    /\ IF upper(country) \in all_countries
       THEN pc' = "request" /\ UNCHANGED <<error, log>>
       ELSE Raise("country ISO3 code not existing")
    /\ UNCHANGED <<inputfile, varname, adm_level, dataset, r, selected_adm,
                   geoBoundary, index, this_dataset, out_ts, stats, files,
                   requested, gridOps>>

\* variant of RequestBoundaries that creates the target file before the request
RequestBoundaries_touch_output ==
    /\ pc = "request"
    /\ requested' = TRUE
    /\ files' = files \cup {"parquet"}
    /\ \/ \E k \in 0..MaxLevels : r' = Response(k) /\ log' = log
       \/ r' = Unbound /\ log' = log \cup {"Error when requesting the shapefile"}
    /\ pc' = "check_adm"
    /\ UNCHANGED <<inputfile, varname, country, adm_level, dataset, selected_adm,
                   geoBoundary, index, this_dataset, out_ts, stats,
                   error, gridOps>>

\* lines 80-83: the request either yields a response of k levels or raises,
\* and the bare except logs the error and leaves r unbound
RequestBoundaries ==
    /\ pc = "request"
    /\ requested' = TRUE
    /\ \/ \E k \in 0..MaxLevels : r' = Response(k) /\ log' = log
       \/ r' = Unbound /\ log' = log \cup {"Error when requesting the shapefile"}
    /\ pc' = "check_adm"
    /\ UNCHANGED <<inputfile, varname, country, adm_level, dataset, selected_adm,
                   geoBoundary, index, this_dataset, out_ts, stats, files,
                   error, gridOps>>

\* lines 86-89
CheckAdmLevel ==
    /\ pc = "check_adm"
    /\ IF ~int(adm_level).ok
       THEN /\ pc' = "failed" /\ error' = "ValueError"
            /\ UNCHANGED <<adm_level, log>>
       ELSE /\ adm_level' = int(adm_level).val
            /\ IF int(adm_level).val < 0 \/ int(adm_level).val > 2
               THEN Raise("Adm_level must be a value between 0 and 2")
               ELSE pc' = "select_adm" /\ UNCHANGED <<error, log>>
    /\ UNCHANGED <<inputfile, varname, country, dataset, r, selected_adm,
                   geoBoundary, index, this_dataset, out_ts, stats, files,
                   requested, gridOps>>

\* lines 91-95: reading the unbound r raises UnboundLocalError, r[0] of an
\* empty response raises IndexError
SelectAdm ==
    /\ pc = "select_adm"
    /\ IF ~r.bound
       THEN /\ pc' = "failed" /\ error' = "UnboundLocalError"
            /\ UNCHANGED <<selected_adm, log>>
       ELSE IF Len(r.levels) > 2
       THEN /\ selected_adm' = r.levels[adm_level + 1]
            /\ pc' = "read_boundary"
            /\ UNCHANGED <<error, log>>
       ELSE /\ log' = log \cup {"Adm level does not exist: switching to ADM0"}
            /\ IF Len(r.levels) = 0
               THEN /\ pc' = "failed" /\ error' = "IndexError"
                    /\ UNCHANGED selected_adm
               ELSE /\ selected_adm' = r.levels[1]
                    /\ pc' = "read_boundary"
                    /\ UNCHANGED error
    /\ UNCHANGED <<inputfile, varname, country, adm_level, dataset, r,
                   geoBoundary, index, this_dataset, out_ts, stats, files,
                   requested, gridOps>>

\* lines 98-102
ReadBoundary ==
    /\ pc = "read_boundary"
    /\ geoBoundary' \in SeqsUpTo(Regions, MaxRegions)
    /\ out_ts' = EmptyFrame
    /\ stats' = <<>>
    /\ pc' = "loop"
    /\ UNCHANGED <<inputfile, varname, country, adm_level, dataset, r, selected_adm,
                   index, this_dataset, files, error, log, requested, gridOps>>

\* lines 145-148: the timestep column on an empty frame, then the region's column
AddSeries(df, name, S) ==
    LET first == IF df.len = 0
                 THEN setitem(df, "timestep", stacked_timestep)
                 ELSE [ok |-> TRUE, df |-> df]
    IN  IF first.ok THEN setitem(first.df, name, stacked_values(S)) ELSE first

\* variant of record_stats that records only regions with a non-empty window
record_stats_covered_only(st, row, win) ==
    IF size(win) > 0
    THEN Append(st, [name |-> row.shapeName, n |-> Len(win.lat) * Len(win.lon)])
    ELSE st

\* lines 115-124: one statistics row per region, n = latitudes x longitudes
record_stats(st, row, win) ==
    Append(st, [name |-> row.shapeName, n |-> Len(win.lat) * Len(win.lon)])

\* lines 104-148: one iteration of the per-region loop
ProcessRegion ==
    /\ pc = "loop"
    /\ index < Len(geoBoundary)
    /\ LET row == geoBoundary[index + 1]
           win == sel(dataset, row.xmin, row.ymin, row.xmax, row.ymax)
           res == AddSeries(out_ts, row.shapeName, clip(win, row))
       IN  /\ this_dataset' = win
           /\ gridOps' = gridOps + 1
           /\ stats' = record_stats(stats, row, win)
           /\ IF size(win) > 0
              THEN /\ out_ts' = res.df
                   /\ IF res.ok
                      THEN index' = index + 1 /\ UNCHANGED <<pc, error>>
                      ELSE pc' = "failed" /\ error' = "ValueError" /\ UNCHANGED index
              ELSE /\ index' = index + 1
                   /\ UNCHANGED <<out_ts, pc, error>>
    /\ UNCHANGED <<inputfile, varname, country, adm_level, dataset, r, selected_adm,
                   geoBoundary, files, log, requested>>

\* line 152
WriteParquet ==
    /\ pc = "loop"
    /\ index = Len(geoBoundary)
    /\ files' = files \cup {"parquet"}
    /\ pc' = "write_csv"
    /\ UNCHANGED <<inputfile, varname, country, adm_level, dataset, r, selected_adm,
                   geoBoundary, index, this_dataset, out_ts, stats, error, log,
                   requested, gridOps>>

\* line 153
WriteCsv ==
    /\ pc = "write_csv"
    /\ files' = files \cup {"csv"}
    /\ pc' = "done"
    /\ UNCHANGED <<inputfile, varname, country, adm_level, dataset, r, selected_adm,
                   geoBoundary, index, this_dataset, out_ts, stats, error, log,
                   requested, gridOps>>

Next ==
    \/ OpenDataset
    \/ CheckVariable
    \/ CheckCountry
    \/ RequestBoundaries
    \/ CheckAdmLevel
    \/ SelectAdm
    \/ ReadBoundary
    \/ ProcessRegion
    \/ WriteParquet
    \/ WriteCsv

Spec == Init /\ [][Next]_vars

----------------------------------------------------------------------------
(* The per-region loop on its own, entered with any grid of up to MaxAxis    *)
(* latitudes and longitudes in either order and one region with any box     *)

DatasetsSel ==
    {[lat |-> la, lon |-> lo, data_vars |-> {"t2m"}] :
        la \in Axes(0..MaxCoord), lo \in Axes(0..MaxCoord)}

RegionsSel == {Region("A", g, px, py) : g \in {"box", "tri"}, px \in Intervals, py \in Intervals}

InitSel ==
    /\ pc = "loop"
    /\ inputfile = TRUE
    /\ varname = "t2m"
    /\ country = "ITA"
    /\ adm_level = 0
    /\ dataset \in DatasetsSel
    /\ r = Response(3)
    /\ selected_adm = [boundaryType |-> 0]
    /\ geoBoundary \in {<<rg>> : rg \in RegionsSel}
    /\ index = 0
    /\ this_dataset = [lat |-> <<>>, lon |-> <<>>, data_vars |-> {}]
    /\ out_ts = EmptyFrame
    /\ stats = <<>>
    /\ files = {}
    /\ error = "none"
    /\ log = {}
    /\ requested = TRUE
    /\ gridOps = 0

NextSel == ProcessRegion \/ WriteParquet \/ WriteCsv

SpecSel == InitSel /\ [][NextSel]_vars

----------------------------------------------------------------------------
(* Properties *)

MissingInputError  == "Missing input file"
VariableError      == "Variable is not a data variable"
InvalidCountryError == "country ISO3 code not existing"
InvalidAdmLevelError == "Adm_level must be a value between 0 and 2"

InputValidationErrors ==
    {MissingInputError, VariableError, InvalidCountryError, InvalidAdmLevelError}

Ended == pc \in {"failed", "done"}

ValidCountry == upper(country) \in all_countries

\* C1: a run that ends in an input-validation failure (missing file, unknown
\* variable, invalid country, admin level outside 0..2) has written neither
\* the time-series file nor the statistics file, and files are never removed,
\* so none was written at any earlier point of the run either.
C1_NoOutputOnInputError ==
    /\ error \in InputValidationErrors => files = {}
    /\ files # {} => pc \in {"write_csv", "done"}

\* the admin level is rejected after the boundary request has been made
C1_Witness ==
    pc = "failed" /\ error = InvalidAdmLevelError /\ requested /\ files = {}

\* C2 as stated: every run with an invalid country code fails with the
\* invalid-country error, with no boundary request and no grid computation.
C2_InvalidCountryAlwaysReported ==
    (~ValidCountry /\ Ended) =>
        (error = InvalidCountryError /\ ~requested /\ gridOps = 0)

\* C2 amended: a run with an invalid country code never issues the boundary
\* request and never computes on the grid; it never gets past the country
\* check, and when the input file exists and holds the variable it fails with
\* the invalid-country error.
C2_InvalidCountryStopsBeforeRequest ==
    ~ValidCountry =>
        /\ ~requested
        /\ gridOps = 0
        /\ pc \in {"open", "check_var", "check_country", "failed"}
        /\ (Ended /\ inputfile /\ varname \in dataset.data_vars)
              => (pc = "failed" /\ error = InvalidCountryError)

C2_Witness ==
    /\ pc = "failed" /\ error = InvalidCountryError /\ country = "ZZZ"
    /\ inputfile /\ ~requested /\ gridOps = 0

\* C3 as stated: with a valid admin level a and a response of k levels, the
\* run goes on to read the boundary of level a when the response holds level
\* a, and that of level 0 when k <= 2.
C3_LevelUsed ==
    pc = "read_boundary" =>
        /\ adm_level < Len(r.levels) => selected_adm.boundaryType = adm_level
        /\ Len(r.levels) <= 2 => selected_adm.boundaryType = 0

\* C4 as stated: a failed boundary request is logged and swallowed; the run
\* is not aborted because of it (it may still end on an invalid admin level).
C4_RequestFailureSwallowed ==
    (requested /\ ~r.bound /\ pc = "failed") =>
        error \in {InvalidAdmLevelError, "ValueError"}

----------------------------------------------------------------------------
InBox(row, c) ==
    /\ row.xmin <= c[1] /\ c[1] <= row.xmax
    /\ row.ymin <= c[2] /\ c[2] <= row.ymax

\* the region whose window this_dataset holds
LastRow == geoBoundary[gridOps]

\* the values of an axis that lie in [lo, hi], in the axis's order
AxisWithin(axis, lo, hi) ==
    LET Keep(v) == lo <= v /\ v <= hi IN SelectSeq(axis, Keep)

ExactWindow ==
    /\ this_dataset.lon = AxisWithin(dataset.lon, LastRow.xmin, LastRow.xmax)
    /\ this_dataset.lat = AxisWithin(dataset.lat, LastRow.ymin, LastRow.ymax)
    /\ Cells(this_dataset) = {c \in Cells(dataset) : InBox(LastRow, c)}

\* C5 as stated: whatever the order of the latitude axis, the selection holds
\* exactly the grid cells inside the bounding box.
C5_ExactWindowAnyOrder ==
    (gridOps > 0 /\ StrictlyIncreasing(dataset.lon)) => ExactWindow

\* C5 amended: with an ascending longitude axis and a descending latitude
\* axis of at least two values, the selection holds exactly the grid cells
\* inside the bounding box, in the grid's order; with an ascending latitude
\* axis (an axis of one value counts as ascending) the selection is empty.
C5_ExactWindowDescending ==
    gridOps > 0 =>
        /\ (StrictlyIncreasing(dataset.lon) /\ Len(dataset.lat) >= 2
              /\ StrictlyDecreasing(dataset.lat)) => ExactWindow
        /\ StrictlyIncreasing(dataset.lat) => this_dataset.lat = <<>>

\* a descending grid with cells inside and outside the box, on both axes
C5_Witness ==
    /\ gridOps > 0
    /\ StrictlyIncreasing(dataset.lon) /\ Len(dataset.lon) >= 2
    /\ StrictlyDecreasing(dataset.lat) /\ Len(dataset.lat) >= 2
    /\ Len(this_dataset.lat) = 1 /\ Len(this_dataset.lon) = 1

----------------------------------------------------------------------------
Min(S) == CHOOSE m \in S : \A v \in S : m <= v
Max(S) == CHOOSE m \in S : \A v \in S : m >= v

\* the bounding box lies outside the grid's longitude or latitude extent
NoOverlap(ds, row) ==
    \/ row.xmax < Min(Range(ds.lon)) \/ row.xmin > Max(Range(ds.lon))
    \/ row.ymax < Min(Range(ds.lat)) \/ row.ymin > Max(Range(ds.lat))

\* C6: processing a region whose bounding box does not intersect the grid's
\* extents adds no column to the time-series table, appends one statistics
\* row with a cell count of 0, and leaves the run in the loop at the next
\* region.
C6_UncoveredRegion ==
    [][(pc = "loop" /\ index < Len(geoBoundary)
          /\ NoOverlap(dataset, geoBoundary[index + 1]))
        => /\ out_ts' = out_ts
           /\ Len(stats') = Len(stats) + 1
           /\ stats'[Len(stats')].n = 0
           /\ stats'[Len(stats')].name = geoBoundary[index + 1].shapeName
           /\ pc' = "loop" /\ error' = "none"
           /\ index' = index + 1]_vars

\* an uncovered region was processed first, and the next region gave a column
C6_Witness ==
    /\ pc = "loop" /\ index = 2
    /\ NoOverlap(dataset, geoBoundary[1])
    /\ stats[1].n = 0 /\ stats[2].n > 0
    /\ Len(out_ts.cols) = 2

\* C7: after k regions have been processed the statistics table has exactly
\* k rows, row i being that of region i, with or without a series.
C7_OneStatsRowPerRegion ==
    pc \in {"loop", "write_csv", "done"} =>
        /\ Len(stats) = index
        /\ \A i \in 1..index :
              LET row == geoBoundary[i]
                  win == sel(dataset, row.xmin, row.ymin, row.xmax, row.ymax)
              IN  /\ stats[i].name = row.shapeName
                  /\ stats[i].n = Cardinality(Cells(win))
        /\ pc # "loop" => Len(stats) = Len(geoBoundary)

\* a completed run of two regions, the second of which gave no series
C7_Witness ==
    /\ pc = "done" /\ Len(stats) = 2
    /\ stats[1].n > 0 /\ stats[2].n = 0
    /\ Len(out_ts.cols) = 2

----------------------------------------------------------------------------
\* the regions that gave a non-empty series, in processing order
Aggregated == SelectSeq([i \in 1..Len(stats) |-> stats[i]], LAMBDA st : st.n > 0)

\* C8 as stated: a completed run's table has the timestep column and then
\* exactly one value column per aggregated region, named after it.
C8_OneColumnPerRegion ==
    (pc = "done" /\ Len(Aggregated) > 0) =>
        ColumnNames(out_ts) =
            <<"timestep">> \o [i \in 1..Len(Aggregated) |-> Aggregated[i].name]

\* C9: once the timestep axis is established, every column of the table has
\* the length of the timestep column, which is the number of (time, step)
\* pairs of the grid: no column is shorter or longer.
C9_ColumnsMatchAxis ==
    out_ts.len > 0 =>
        /\ HasColumn(out_ts, "timestep")
        /\ \A i \in 1..Len(out_ts.cols) :
              /\ Len(out_ts.cols[i].vals) = Len(Column(out_ts, "timestep"))
              /\ Len(out_ts.cols[i].vals) = out_ts.len
              /\ Len(out_ts.cols[i].vals) = StackLen

\* two regions have written to the table after the axis was established, the
\* second one under a name already in the table
C9_Witness ==
    /\ pc = "loop" /\ index = 2
    /\ stats[1].n > 0 /\ stats[2].n > 0
    /\ stats[1].name = stats[2].name
    /\ out_ts.len = StackLen

\* C10 as stated: the timestep column is set once, from the timestep values
\* of the first region with a non-empty series, and no later step changes it.
C10_AxisEstablishedOnce ==
    [][/\ (~HasColumn(out_ts, "timestep") /\ HasColumn(out_ts', "timestep"))
            => Column(out_ts', "timestep") = stacked_timestep
       /\ HasColumn(out_ts, "timestep")
            => /\ HasColumn(out_ts', "timestep")
               /\ Column(out_ts', "timestep") = Column(out_ts, "timestep")]_vars

====
